---- MODULE Spec2Model ----
(***************************************************************************)
(* Model of gyre/pipeline/randtools.py: the batched random draws           *)
(* (batched_rand, batched_randn), the TorchRandOverride namespace          *)
(* (randn_like, randint_like) and the non-determinism tracker (tracker,    *)
(* warn_on_nondeterministic_rand).                                         *)
(*                                                                         *)
(* A torch.Generator is a record [seed, pos]: pos counts the single-slice  *)
(* draws made from it since it was seeded.  The value of a slice is the    *)
(* record of what determines it (draw kind, seed, position, bounds); the   *)
(* trailing shape, the dtype and the device are the same in every call of  *)
(* a run and are left out.  The generators of a list are distinct objects  *)
(* (list position = identity); two of them may hold the same seed.         *)
(***************************************************************************)
EXTENDS Integers, Sequences, FiniteSets, TLC

VARIABLES
    generators,       \* the generator list: sequence of [seed, pos]
    gens0,      \* the list as it was seeded (what a re-seed restores)
    globalPos,  \* position of torch's default (unseeded) generator
    phase,      \* "run" | "replay" (batched specification)
    trace,      \* call records of the first run
    rtrace,     \* call records of the repeated run
    ocall,      \* last call on the override namespace
    ocount,     \* number of override calls made
    torch,      \* per entry point: how many tracker wrappers are around it
    warned,     \* the module-level set  warned
    log,        \* the messages given to logger.warn, in order
    invoked,    \* every wrapper invocation so far: [fullstr, generator passed]
    warned1,    \* warned, had the tracker been installed exactly once
    log1,       \* log, had the tracker been installed exactly once
    refGens,    \* the generators, had the same calls gone to untracked torch
    refGlobal,  \* the default generator, likewise
    tcall,      \* last call of a tracked entry point
    tcount      \* number of such calls made

batchVars == <<gens0, phase, trace, rtrace>>
overVars == <<ocall, ocount>>
trackVars == <<torch, warned, log, invoked, warned1, log1, refGens, refGlobal,
               tcall, tcount>>

vars == <<generators, globalPos, batchVars, overVars, trackVars>>

\* ---------------------------------------------------------------- bounds
MaxG == 3
MaxN == 6
MaxCalls == 2
MaxOCalls == 2
MaxInstalls == 2
MaxTCalls == 3

Seeds == {1, 2}
BatchSizes == 0..MaxN

\* seed of torch's default generator (used when no generator= is passed)
GlobalSeed == 0

\* ------------------------------------------------------ torch primitives
\* torch.rand / torch.randn / torch.randint of one slice from generator g
Sample(kind, g, low, high) ==
    [kind |-> kind, seed |-> g.seed, pos |-> g.pos, low |-> low, high |-> high]

AdvanceStuck(g, i) == g

\* the draw moves generator i (and no other) one position on
Advance(g, i) == [g EXCEPT ![i].pos = @ + 1]

\* the list expression  generators * reps  (as 1-based list positions)
CycledReversed(G, reps) == [j \in 1..(G * reps) |-> G - ((j - 1) % G)]

CycledBlocked(G, reps) == [j \in 1..(G * reps) |-> ((j - 1) \div reps) + 1]

CycledOnce(G, reps) == [j \in 1..G |-> j]

Cycled(G, reps) == [j \in 1..(G * reps) |-> ((j - 1) % G) + 1]

\* the list comprehension: one slice per list entry, drawn left to right
RECURSIVE DrawEach(_, _, _, _, _)
DrawEach(kind, idxs, g, low, high) ==
    IF idxs = <<>>
    THEN [generators |-> g, out |-> <<>>, order |-> <<>>]
    ELSE LET i == Head(idxs)
             s == Sample(kind, g[i], low, high)
             rest == DrawEach(kind, Tail(idxs), Advance(g, i), low, high)
         IN [generators |-> rest.generators,
             out |-> <<s>> \o rest.out,
             order |-> <<i>> \o rest.order]

\* torch.cat(slices, dim=0): an empty list of tensors is an error
TorchCat(r) ==
    IF r.out = <<>>
    THEN [status |-> "RuntimeError", generators |-> r.generators, out |-> <<>>, order |-> <<>>]
    ELSE [status |-> "ok", generators |-> r.generators, out |-> r.out, order |-> r.order]

\* raise ValueError(... needs to be a multiple of len(generators) ...)
RaiseValueError(g) ==
    [status |-> "ValueError", generators |-> g, out |-> <<>>, order |-> <<>>]

\* ---------------------------------------------------------- batched draws
batched_rand(N, g) ==
    IF N % Len(g) # 0
    THEN RaiseValueError(g)
    ELSE TorchCat(DrawEach("rand", Cycled(Len(g), N \div Len(g)), g, 0, 0))

batched_randn(N, g) ==
    IF N % Len(g) # 0
    THEN RaiseValueError(g)
    ELSE TorchCat(DrawEach("randn", Cycled(Len(g), N \div Len(g)), g, 0, 0))

batched_draw(kind, N, g) ==
    IF kind = "rand" THEN batched_rand(N, g) ELSE batched_randn(N, g)

CallRecord(kind, N, g) ==
    LET r == batched_draw(kind, N, g)
    IN [kind |-> kind, N |-> N, pre |-> g, status |-> r.status,
        out |-> r.out, order |-> r.order, post |-> r.generators]

\* ---------------------------------------------------- TorchRandOverride
\* an ordinary torch draw of N samples without generator=: it reads torch's
\* default generator (at position gp) and no generator of the list
Unseeded(kind, N, g, gp, low, high) ==
    [status |-> "ok", path |-> "unseeded", generators |-> g, order |-> <<>>,
     out |-> [i \in 1..N |->
                 Sample(kind, [seed |-> GlobalSeed, pos |-> gp + (i - 1)], low, high)],
     globalPos |-> gp + N]

Batched(r, gp) ==
    [status |-> r.status, path |-> "batched", generators |-> r.generators, order |-> r.order,
     out |-> r.out, globalPos |-> gp]

\* TorchRandOverride.randn_like(input) with input.shape[0] = N
randn_like(N, g, gp) ==
    IF N % Len(g) # 0
    THEN Unseeded("randn", N, g, gp, 0, 0)
    ELSE Batched(batched_randn(N, g), gp)

\* an optional argument: <<>> is None, <<v>> is the value v
ResolveHigh(args, high, low) ==
    IF Len(args) = 1 THEN <<args[1]>>
    ELSE IF args # <<>> THEN <<args[2]>>
    ELSE high

ResolveLow(args, high, low) ==
    LET l == IF Len(args) = 1 THEN low
             ELSE IF args # <<>> THEN <<args[1]>>
             ELSE low
    IN IF l = <<>> THEN 0 ELSE l[1]

GeneratorListCycled(G, N) == Cycled(G, N \div G)

\* for generator in self.generators  (as 1-based list positions)
GeneratorList(G, N) == [j \in 1..G |-> j]

\* TorchRandOverride.randint_like(input, *args, high=, low=) with
\* input.shape[0] = N
randint_like(N, args, high, low, g, gp) ==
    LET h == ResolveHigh(args, high, low)[1]
        l == ResolveLow(args, high, low)
    IN IF N % Len(g) # 0
       THEN Unseeded("randint", N, g, gp, l, h)
       ELSE Batched(TorchCat(DrawEach("randint", GeneratorList(Len(g), N), g, l, h)), gp)

\* ------------------------------------------------------------- tracker
\* the six entry points warn_on_nondeterministic_rand replaces
Entries == {"rand", "rand_like", "randn", "randn_like", "randint", "randint_like"}

\* those of them that take generator=
SeededEntries == {"rand", "randn", "randint"}

EntryKind(entry) ==
    IF entry = "rand" \/ entry = "rand_like" THEN "rand"
    ELSE IF entry = "randn" \/ entry = "randn_like" THEN "randn"
    ELSE "randint"

\* the frame of  return wrapped(*args, **kwargs)  inside wrapper
WrapperFrame == [filename |-> "randtools.py", lineno |-> 159, function |-> "wrapper"]

\* f"{filename}:{lineno}:{function}"
fullstr(frame) ==
    frame.filename \o ":" \o ToString(frame.lineno) \o ":" \o frame.function

\* the original torch operation: one draw, from the generator passed as
\* generator= (a.gen = <<i>>) or from torch's default generator (a.gen = <<>>)
Original(a, st) ==
    IF a.gen # <<>>
    THEN [out |-> Sample(EntryKind(a.entry), st.generators[a.gen[1]], 0, 0),
          generators |-> Advance(st.generators, a.gen[1]),
          globalPos |-> st.globalPos,
          origCalls |-> st.origCalls + 1]
    ELSE [out |-> Sample(EntryKind(a.entry),
                         [seed |-> GlobalSeed, pos |-> st.globalPos], 0, 0),
          generators |-> st.generators,
          globalPos |-> st.globalPos + 1,
          origCalls |-> st.origCalls + 1]

NoteAlways(w, a, frame) ==
    LET inv == w.invoked \cup {[fullstr |-> fullstr(frame), gen |-> a.gen # <<>>]}
    IN IF a.gen # <<>>
       THEN [warned |-> w.warned, log |-> w.log, invoked |-> inv]
       ELSE [warned |-> w.warned \cup {fullstr(frame)},
             log |-> Append(w.log, fullstr(frame)),
             invoked |-> inv]

\* wrapper, up to the forwarding call: the one-time warning per call site
Note(w, a, frame) ==
    LET inv == w.invoked \cup {[fullstr |-> fullstr(frame), gen |-> a.gen # <<>>]}
    IN IF a.gen # <<>>
       THEN [warned |-> w.warned, log |-> w.log, invoked |-> inv]
       ELSE IF fullstr(frame) \notin w.warned
            THEN [warned |-> w.warned \cup {fullstr(frame)},
                  log |-> Append(w.log, fullstr(frame)),
                  invoked |-> inv]
            ELSE [warned |-> w.warned, log |-> w.log, invoked |-> inv]

\* what wrapper hands on to wrapped: *args, **kwargs as received
ForwardedDropKwargs(a) == [a EXCEPT !.gen = <<>>]

Forwarded(a) == a

\* calling an entry point that has depth wrappers around it from frame:
\* each wrapper notes its caller, then calls what it wraps from WrapperFrame
RECURSIVE wrapper(_, _, _, _, _)
wrapper(depth, frame, a, w, st) ==
    IF depth = 0
    THEN [w |-> w, r |-> Original(a, st)]
    ELSE LET res == wrapper(depth - 1, WrapperFrame, Forwarded(a), Note(w, a, frame), st)
         IN [w |-> res.w, r |-> res.r]

\* warn_on_nondeterministic_rand: torch.X = tracker(torch.X) for the six
warn_on_nondeterministic_rand(t) == [e \in Entries |-> t[e] + 1]

\* ------------------------------------------------------------------ Init
NoCall == [op |-> "none", N |-> 0, form |-> "none", l |-> 0, h |-> 0,
           pre |-> <<>>, gpre |-> 0, status |-> "none", path |-> "none",
           out |-> <<>>, order |-> <<>>]

NoTrackedCall == [entry |-> "none", depth |-> 0, fullstr |-> "", gen |-> <<>>,
                  out |-> Sample("none", [seed |-> 0, pos |-> 0], 0, 0),
                  refOut |-> Sample("none", [seed |-> 0, pos |-> 0], 0, 0),
                  origCalls |-> 0, logged |-> 0]

Init ==
    /\ \E G \in 1..MaxG :
         \E s \in [1..G -> Seeds] :
           generators = [i \in 1..G |-> [seed |-> s[i], pos |-> 0]]
    /\ gens0 = generators
    /\ globalPos = 0
    /\ phase = "run"
    /\ trace = <<>>
    /\ rtrace = <<>>
    /\ ocall = NoCall
    /\ ocount = 0
    /\ torch = [e \in Entries |-> 0]
    /\ warned = {}
    /\ log = <<>>
    /\ invoked = {}
    /\ warned1 = {}
    /\ log1 = <<>>
    /\ refGens = generators
    /\ refGlobal = 0
    /\ tcall = NoTrackedCall
    /\ tcount = 0

\* -------------------------------------------- batched specification
BatchedRand(N) ==
    /\ phase = "run"
    /\ Len(trace) < MaxCalls
    /\ LET c == CallRecord("rand", N, generators)
       IN /\ trace' = Append(trace, c)
          /\ generators' = c.post
    /\ UNCHANGED <<gens0, globalPos, phase, rtrace, overVars, trackVars>>

BatchedRandn(N) ==
    /\ phase = "run"
    /\ Len(trace) < MaxCalls
    /\ LET c == CallRecord("randn", N, generators)
       IN /\ trace' = Append(trace, c)
          /\ generators' = c.post
    /\ UNCHANGED <<gens0, globalPos, phase, rtrace, overVars, trackVars>>

\* the caller re-seeds every generator (generator.manual_seed(seed))
ResetStreams ==
    /\ phase = "run"
    /\ trace # <<>>
    /\ phase' = "replay"
    /\ generators' = gens0
    /\ UNCHANGED <<gens0, globalPos, trace, rtrace, overVars, trackVars>>

\* the caller repeats the next call of the first run, with the same arguments
ReplayCall ==
    /\ phase = "replay"
    /\ Len(rtrace) < Len(trace)
    /\ LET k == Len(rtrace) + 1
           c == CallRecord(trace[k].kind, trace[k].N, generators)
       IN /\ rtrace' = Append(rtrace, c)
          /\ generators' = c.post
    /\ UNCHANGED <<gens0, globalPos, phase, trace, overVars, trackVars>>

NextBatch ==
    \/ \E N \in BatchSizes : BatchedRand(N)
    \/ \E N \in BatchSizes : BatchedRandn(N)
    \/ ResetStreams
    \/ ReplayCall

SpecBatch == Init /\ [][NextBatch]_vars

\* the batched draws alone: every state is the state right after a call
NextDraw ==
    \/ \E N \in BatchSizes : BatchedRand(N)
    \/ \E N \in BatchSizes : BatchedRandn(N)

SpecDraw == Init /\ [][NextDraw]_vars

\* the call that led to the current state (none in an initial state)
Calls == IF trace = <<>> THEN {} ELSE {trace[Len(trace)]}

\* ------------------------------------------------------------ C1 .. C5
\* the (list position, generator position) pairs a call has read
Reads(c) == {<<c.order[j], c.out[j].pos>> : j \in 1..Len(c.out)}

SameRequest(a, b) == a.kind = b.kind /\ a.N = b.N

ConsecutiveDisjoint(t) ==
    \A k \in 1..(Len(t) - 1) :
        (SameRequest(t[k], t[k + 1]) /\ t[k].status = "ok")
            => /\ t[k + 1].status = "ok"
               /\ Reads(t[k]) # {}
               /\ Reads(t[k + 1]) # {}
               /\ Reads(t[k]) \cap Reads(t[k + 1]) = {}

\* C1: after every generator is re-seeded, repeating the same sequence of
\* batched draws gives, call by call, the outcome and output of the first
\* run; and within a run, two consecutive calls with the same parameters
\* read disjoint generator positions.
C1_Reproducible ==
    /\ \A k \in 1..Len(rtrace) :
          /\ rtrace[k].status = trace[k].status
          /\ rtrace[k].out = trace[k].out
    /\ ConsecutiveDisjoint(trace)
    /\ ConsecutiveDisjoint(rtrace)

C1_Witness ==
    /\ phase = "replay"
    /\ Len(trace) = MaxCalls
    /\ Len(rtrace) = Len(trace)
    /\ SameRequest(trace[1], trace[2])
    /\ trace[1].status = "ok"
    /\ trace[1].N > Len(generators)
    /\ Len(generators) > 1

\* C2: a batched draw fails with the batch-size error (the ValueError of the
\* source) iff N mod G # 0, and for every N with N mod G = 0 it succeeds
\* with exactly N samples.
C2_FailsIffNotMultiple ==
    \A c \in Calls :
        /\ (c.status = "ValueError") <=> (c.N % Len(c.pre) # 0)
        /\ (c.N % Len(c.pre) = 0) => (c.status = "ok" /\ Len(c.out) = c.N)

\* the same statement for the non-empty batches (N >= 1)
C2_PositiveBatch ==
    \A c \in Calls :
        c.N >= 1 =>
            /\ (c.status = "ValueError") <=> (c.N % Len(c.pre) # 0)
            /\ (c.N % Len(c.pre) = 0) => (c.status = "ok" /\ Len(c.out) = c.N)

SwapStreams(g, j, k) == [g EXCEPT ![j] = g[k], ![k] = g[j]]

\* the sample that trades places with sample i (0-based) when the list
\* positions j and k (1-based) are swapped
Partner(i, G, j, k) ==
    IF (i % G) + 1 = j THEN (i \div G) * G + (k - 1)
    ELSE IF (i % G) + 1 = k THEN (i \div G) * G + (j - 1)
    ELSE i

\* C3: in a successful batched draw sample i is the slice drawn from
\* generator i mod G, the slices are drawn in index order 0..N-1 and kept in
\* that order; swapping the generators at two list positions (holding the
\* same position) swaps the samples of those positions, round by round, and
\* changes no other sample.
C3_OrderAndSwap ==
    \A c \in Calls :
        c.status = "ok" =>
            LET G == Len(c.pre)
            IN /\ Len(c.out) = c.N
               /\ Len(c.order) = c.N
               /\ \A i \in 0..(c.N - 1) :
                     /\ c.order[i + 1] = (i % G) + 1
                     /\ c.out[i + 1] =
                            Sample(c.kind,
                                   [seed |-> c.pre[(i % G) + 1].seed,
                                    pos |-> c.pre[(i % G) + 1].pos + (i \div G)],
                                   0, 0)
               /\ \A j, k \in 1..G :
                     (j # k /\ c.pre[j].pos = c.pre[k].pos) =>
                         LET sw == batched_draw(c.kind, c.N, SwapStreams(c.pre, j, k))
                         IN /\ sw.status = "ok"
                            /\ \A i \in 0..(c.N - 1) :
                                  sw.out[i + 1] = c.out[Partner(i, G, j, k) + 1]

C3_Witness ==
    \E c \in Calls :
        /\ c.status = "ok"
        /\ Len(c.pre) = MaxG
        /\ c.N > Len(c.pre)
        /\ \E j, k \in 1..Len(c.pre) : c.pre[j].seed # c.pre[k].seed

\* C4 as stated: every successful batched draw advances each generator of
\* the list by exactly one draw.
C4_AdvanceByOne ==
    \A c \in Calls :
        c.status = "ok" =>
            \A g \in 1..Len(c.pre) : c.post[g].pos = c.pre[g].pos + 1

\* C4 amended: every successful batched draw with batch size N over G
\* generators advances each generator of the list by exactly N / G draws
\* (one draw only when N = G), whatever the other generators are.
C4_AdvanceByQuotient ==
    \A c \in Calls :
        c.status = "ok" =>
            /\ Len(c.post) = Len(c.pre)
            /\ \A g \in 1..Len(c.pre) :
                  /\ c.post[g].seed = c.pre[g].seed
                  /\ c.post[g].pos = c.pre[g].pos + (c.N \div Len(c.pre))

C4_Witness ==
    \E c \in Calls :
        /\ c.status = "ok"
        /\ c.N > Len(c.pre)
        /\ Len(c.pre) > 1
        /\ c.pre[1].pos > 0

\* the generator list g with every generator but the one at list position
\* keep replaced by a generator of seed s at position p
OthersSetTo(g, keep, s, p) ==
    [j \in 1..Len(g) |-> IF j = keep THEN g[j] ELSE [seed |-> s, pos |-> p]]

\* ... or moved to another seed and p positions on
OthersShifted(g, keep, p) ==
    [j \in 1..Len(g) |->
        IF j = keep THEN g[j]
        ELSE [seed |-> 3 - g[j].seed, pos |-> g[j].pos + j + p]]

AltPositions == {0, 1}

\* C5: sample i of a batched draw is the same in any other execution in
\* which generator i mod G starts at the same seed and position, whatever
\* the batch size (any multiple of G above i) and whatever the seeds and
\* positions of the other generators.
C5_SampleIndependent ==
    \A c \in Calls :
        c.status = "ok" =>
            LET G == Len(c.pre)
            IN \A i \in 0..(c.N - 1) :
                 \A N2 \in BatchSizes :
                   (N2 % G = 0 /\ N2 > i) =>
                     \A p \in AltPositions :
                       /\ \A s \in Seeds :
                            batched_draw(c.kind, N2,
                                OthersSetTo(c.pre, (i % G) + 1, s, p)).out[i + 1]
                                = c.out[i + 1]
                       /\ batched_draw(c.kind, N2,
                                OthersShifted(c.pre, (i % G) + 1, p)).out[i + 1]
                                = c.out[i + 1]

C5_Witness ==
    \E c \in Calls :
        /\ c.status = "ok"
        /\ Len(c.pre) = MaxG
        /\ c.N = 2 * Len(c.pre)
        /\ c.pre[1].pos > 0

\* ------------------------------------------- override specification
OverrideRecord(op, N, form, l, h, g, gp, r) ==
    [op |-> op, N |-> N, form |-> form, l |-> l, h |-> h,
     pre |-> g, gpre |-> gp, status |-> r.status, path |-> r.path,
     out |-> r.out, order |-> r.order]

RandnLike(N) ==
    /\ ocount < MaxOCalls
    /\ LET r == randn_like(N, generators, globalPos)
       IN /\ ocall' = OverrideRecord("randn_like", N, "none", 0, 0, generators, globalPos, r)
          /\ generators' = r.generators
          /\ globalPos' = r.globalPos
    /\ ocount' = ocount + 1
    /\ UNCHANGED <<batchVars, trackVars>>

\* the ways a caller passes the bounds l and h (h is always passed, l < h)
Forms == {"h_pos", "lh_pos", "h_kw", "lh_kw", "h_pos_l_kw"}
Lows == {1}
Highs == {3}

FormArgs(form, l, h) ==
    IF form = "h_pos" \/ form = "h_pos_l_kw" THEN <<h>>
    ELSE IF form = "lh_pos" THEN <<l, h>>
    ELSE <<>>

FormHigh(form, l, h) == IF form = "h_kw" \/ form = "lh_kw" THEN <<h>> ELSE <<>>

FormLow(form, l, h) == IF form = "lh_kw" \/ form = "h_pos_l_kw" THEN <<l>> ELSE <<>>

RandintLike(N, form, l, h) ==
    /\ ocount < MaxOCalls
    /\ LET r == randint_like(N, FormArgs(form, l, h), FormHigh(form, l, h),
                             FormLow(form, l, h), generators, globalPos)
       IN /\ ocall' = OverrideRecord("randint_like", N, form, l, h, generators, globalPos, r)
          /\ generators' = r.generators
          /\ globalPos' = r.globalPos
    /\ ocount' = ocount + 1
    /\ UNCHANGED <<batchVars, trackVars>>

NextOverride ==
    \/ \E N \in BatchSizes : RandnLike(N)
    \/ \E N \in BatchSizes, form \in Forms, l \in Lows, h \in Highs :
          RandintLike(N, form, l, h)

SpecOverride == Init /\ [][NextOverride]_vars

\* ------------------------------------------------------------ C6, C7
\* the low bound the caller asked for: 0 unless one was passed
AskedLow(c) == IF c.form = "h_pos" \/ c.form = "h_kw" THEN 0 ELSE c.l

\* C6: integer_like on an input whose batch size N is a multiple of G draws
\* exactly G slices, one from each generator in list order (no cycling),
\* each generator advances by exactly one position, low is 0 when not
\* given, and the number of draws does not depend on N.
C6_OneDrawPerStream ==
    (ocall.op = "randint_like" /\ ocall.N % Len(ocall.pre) = 0) =>
        LET G == Len(ocall.pre)
        IN /\ ocall.status = "ok"
           /\ ocall.order = [j \in 1..G |-> j]
           /\ Len(ocall.out) = G
           /\ \A j \in 1..G :
                 /\ ocall.out[j] = Sample("randint", ocall.pre[j], AskedLow(ocall), ocall.h)
                 /\ generators[j].seed = ocall.pre[j].seed
                 /\ generators[j].pos = ocall.pre[j].pos + 1
           /\ globalPos = ocall.gpre

C6_Witness ==
    /\ ocall.op = "randint_like"
    /\ Len(ocall.pre) > 1
    /\ ocall.N = 2 * Len(ocall.pre)
    /\ ocall.form = "h_pos"
    /\ ocall.pre[1].pos > 0
    /\ ocall.status = "ok"

\* what a batched normal draw of N samples over the generators pre returns
IsBatchedNormal(c) ==
    /\ c.status = "ok"
    /\ c.path = "batched"
    /\ Len(c.out) = c.N
    /\ \A i \in 0..(c.N - 1) :
          c.out[i + 1] =
              Sample("randn",
                     [seed |-> c.pre[(i % Len(c.pre)) + 1].seed,
                      pos |-> c.pre[(i % Len(c.pre)) + 1].pos + (i \div Len(c.pre))],
                     0, 0)

\* what the fallback returns: an unseeded result, no generator touched
IsFallback(c) ==
    /\ c.status = "ok"
    /\ c.path = "unseeded"
    /\ Len(c.out) = c.N
    /\ \A i \in 1..c.N : c.out[i].seed = GlobalSeed
    /\ c.order = <<>>
    /\ generators = c.pre

\* C7: normal_like on an input whose batch size N is not a multiple of G
\* returns the result of the ordinary unseeded draw, raises nothing and
\* leaves every generator of the list where it was; when N is a multiple of
\* G it returns the batched normal draw of N samples.
C7_FallbackOrBatched ==
    ocall.op = "randn_like" =>
        IF ocall.N % Len(ocall.pre) # 0
        THEN IsFallback(ocall)
        ELSE IsBatchedNormal(ocall)

\* the same statement for the non-empty inputs (N >= 1)
C7_PositiveBatch ==
    (ocall.op = "randn_like" /\ ocall.N >= 1) =>
        IF ocall.N % Len(ocall.pre) # 0
        THEN IsFallback(ocall)
        ELSE IsBatchedNormal(ocall)

\* -------------------------------------------- tracker specification
Install ==
    /\ \A e \in Entries : torch[e] < MaxInstalls
    /\ torch' = warn_on_nondeterministic_rand(torch)
    /\ UNCHANGED <<generators, globalPos, batchVars, overVars, warned, log, invoked,
                   warned1, log1, refGens, refGlobal, tcall, tcount>>

\* the call sites of the host pipeline
Frames == {[filename |-> "a.py", lineno |-> 10, function |-> "f"],
           [filename |-> "a.py", lineno |-> 11, function |-> "f"]}

\* a call  torch.<entry>(..., [generator=generators[i]])  made from frame
Call(entry, frame, gen) ==
    /\ tcount < MaxTCalls
    /\ gen # <<>> => (entry \in SeededEntries /\ gen[1] \in 1..Len(generators))
    /\ LET a == [entry |-> entry, gen |-> gen]
           res == wrapper(torch[entry], frame, a,
                          [warned |-> warned, log |-> log, invoked |-> invoked],
                          [generators |-> generators, globalPos |-> globalPos, origCalls |-> 0])
           one == wrapper(1, frame, a,
                          [warned |-> warned1, log |-> log1, invoked |-> {}],
                          [generators |-> generators, globalPos |-> globalPos, origCalls |-> 0])
           ref == Original(a, [generators |-> refGens, globalPos |-> refGlobal,
                               origCalls |-> 0])
       IN /\ warned' = res.w.warned
          /\ log' = res.w.log
          /\ invoked' = res.w.invoked
          /\ generators' = res.r.generators
          /\ globalPos' = res.r.globalPos
          /\ warned1' = IF torch[entry] >= 1 THEN one.w.warned ELSE warned1
          /\ log1' = IF torch[entry] >= 1 THEN one.w.log ELSE log1
          /\ refGens' = ref.generators
          /\ refGlobal' = ref.globalPos
          /\ tcall' = [entry |-> entry, depth |-> torch[entry],
                       fullstr |-> fullstr(frame), gen |-> gen,
                       out |-> res.r.out, refOut |-> ref.out,
                       origCalls |-> res.r.origCalls,
                       logged |-> Len(res.w.log) - Len(log)]
    /\ tcount' = tcount + 1
    /\ UNCHANGED <<batchVars, overVars, torch>>

NextTracker ==
    \/ Install
    \/ \E entry \in Entries, frame \in Frames, gen \in {<<>>, <<1>>, <<2>>} :
          Call(entry, frame, gen)

\* the tracker is exercised with one list of two generators
InitTracker ==
    /\ Init
    /\ Len(generators) = 2
    /\ generators[1].seed # generators[2].seed
    /\ generators[1].seed = 1

SpecTracker == InitTracker /\ [][NextTracker]_vars

\* ------------------------------------------------------- C8, C9, C10
\* the Call-site Keys of the wrapper invocations made without generator=
UnseededKeys == {i.fullstr : i \in {x \in invoked : ~x.gen}}

IsCallStep == tcount' = tcount + 1

\* C8: the number of warnings logged equals the number of distinct
\* Call-site Keys among the wrapper invocations made without an explicit
\* stream (a second call from the same location logs nothing); a call that
\* passes a stream logs nothing and adds nothing to the seen-set; the
\* seen-set only grows.
C8_OneWarningPerSite ==
    /\ [](/\ Len(log) = Cardinality(UnseededKeys)
          /\ warned = UnseededKeys
          /\ {log[k] : k \in 1..Len(log)} = warned)
    /\ [][/\ warned \subseteq warned'
          /\ (IsCallStep /\ tcall'.gen # <<>>) => (log' = log /\ warned' = warned)
          /\ (IsCallStep /\ tcall'.gen = <<>> /\ tcall'.depth = 1) =>
                (Len(log') = Len(log) + (IF tcall'.fullstr \in warned THEN 0 ELSE 1))
         ]_vars

C8_Witness ==
    /\ tcall.depth = 1
    /\ tcall.gen = <<>>
    /\ tcall.logged = 0
    /\ Len(log) = 2
    /\ tcount = 3

\* C9: every call of a wrapped entry point reaches the original operation
\* exactly once with the arguments it was given, so outputs and generator
\* positions are those of the same calls made without the tracker.
C9_Transparent ==
    /\ tcall.entry # "none" => tcall.origCalls = 1
    /\ tcall.out = tcall.refOut
    /\ generators = refGens
    /\ globalPos = refGlobal

C9_Witness ==
    /\ tcall.depth >= 1
    /\ tcall.gen # <<>>
    /\ tcall.out.pos > 0
    /\ log # <<>>

\* C10: installing the tracker two or more times leaves the process
\* observably as after one installation: the same warnings, the same
\* seen-set, one invocation of the original per call.
C10_InstallIdempotent ==
    /\ warned = warned1
    /\ log = log1
    /\ tcall.entry # "none" => tcall.origCalls = 1

====
